---- MODULE Spec2Model ----
(***************************************************************************)
(* Model of combat_logger's MemoryReader (src/combat_logger/src/memory.rs): *)
(* find_process, read_bytes, write_bytes and the chunked read_string, run   *)
(* against a target process whose memory, mappings and lifetime are the     *)
(* environment.                                                             *)
(***************************************************************************)
EXTENDS Integers, Sequences, FiniteSets, TLC

\* ------------------------------------------------------------------ bounds
\* Largest value of a usize.  The code's usize is 64 bits wide; the model keeps
\* the wrap-around arithmetic but over a narrower word.
USIZE_MAX == 1023
USIZE_MOD == USIZE_MAX + 1

\* const CHUNK_SIZE: usize = 256;
CHUNK_SIZE == 256

\* The kernel never maps the top of the address space into a process: every
\* user address is below TASK_SIZE, at least a chunk away from USIZE_MAX.
TASK_SIZE == USIZE_MOD - CHUNK_SIZE

Min(a, b) == IF a < b THEN a ELSE b

\* ------------------------------------------------------------- Error, Result
Ok(v) == [tag |-> "Ok", addr |-> 0, n |-> 0, val |-> v]
ReadMemoryFailed(address) ==
    [tag |-> "ReadMemoryFailed", addr |-> address, n |-> 0, val |-> <<>>]
ReadMemoryPartial(address, bytes) ==
    [tag |-> "ReadMemoryPartial", addr |-> address, n |-> bytes, val |-> <<>>]
WriteMemoryFailed(address) ==
    [tag |-> "WriteMemoryFailed", addr |-> address, n |-> 0, val |-> <<>>]
WriteMemoryPartial(address, bytes) ==
    [tag |-> "WriteMemoryPartial", addr |-> address, n |-> bytes, val |-> <<>>]
\* A panic of the checked build (arithmetic overflow): no value is returned.
Panic == [tag |-> "Panic", addr |-> 0, n |-> 0, val |-> <<>>]
\* No call has returned yet.
NoResult == [tag |-> "None", addr |-> 0, n |-> 0, val |-> <<>>]

IsErr(r) == r.tag \in {"ReadMemoryFailed", "ReadMemoryPartial",
                       "WriteMemoryFailed", "WriteMemoryPartial"}

VARIABLES
    image,       \* the target's memory image when the accessor was built
    dirty,       \* the cells written since, address -> byte
    region,      \* the target's mapped region [lo, hi) and whether it is writable
    alive,       \* the target process still exists
    process_id,  \* MemoryReader.process_id
    pc,          \* "idle", or "loop" inside read_string's while loop
    range,       \* read_string's argument
    start,       \* read_string's cursor
    buffer,      \* read_string's accumulated bytes
    reached_end, \* read_string's flag
    reqs,        \* the read_bytes calls read_string has made so far
    ret,         \* the last call that returned: arguments, syscalls (reqs), result
    lastWrite,   \* the write_bytes that returned Ok just before, undisturbed
    stable,      \* nothing but the last call itself touched the target since it began
    table,       \* the live processes, in the order `ps -e` lists them
    located      \* the last find_process call, with its argument and result

memVars == <<image, dirty, region, alive, process_id>>
strVars == <<pc, range, start, buffer, reached_end, reqs>>
locVars == <<table, located>>
vars == <<image, dirty, region, alive, process_id, pc, range, start, buffer,
          reached_end, reqs, ret, lastWrite, stable, table, located>>

\* ----------------------------------------------------- the target's memory
NoAddr == 0 - 1

\* The images the target starts with: letters, a terminator at z (and, in
\* "twozero", another three bytes on), and around the first chunk boundary
\* either a two-byte character, a lone lead byte, or at address 1 a byte
\* that is never valid UTF-8.
ImageByte(img, a) ==
    IF a = img.z THEN 0
    ELSE IF img.kind = "twozero" /\ img.z # NoAddr /\ a = img.z + 3 THEN 0
    ELSE IF img.kind = "multi" /\ a = CHUNK_SIZE - 1 THEN 195
    ELSE IF img.kind = "multi" /\ a = CHUNK_SIZE THEN 169
    ELSE IF img.kind = "trunc" /\ a = CHUNK_SIZE - 1 THEN 195
    ELSE IF img.kind = "bad" /\ a = 1 THEN 255
    ELSE 65 + (a % 26)

Images ==
    [kind : {"ascii"},
     z : {NoAddr, 0, 1, 2, CHUNK_SIZE - 1, CHUNK_SIZE, CHUNK_SIZE + 1,
          2 * CHUNK_SIZE - 1, 2 * CHUNK_SIZE}]
    \cup [kind : {"twozero"}, z : {1, CHUNK_SIZE - 2}]
    \cup [kind : {"multi"}, z : {NoAddr, CHUNK_SIZE + 1, 2 * CHUNK_SIZE}]
    \cup [kind : {"trunc"}, z : {NoAddr, CHUNK_SIZE + 1}]
    \cup [kind : {"bad"}, z : {NoAddr, 2, CHUNK_SIZE + 1}]

Regions ==
    { [lo |-> 0, hi |-> TASK_SIZE, writable |-> TRUE],
      [lo |-> 0, hi |-> 2 * CHUNK_SIZE + 44, writable |-> FALSE],
      [lo |-> 0, hi |-> CHUNK_SIZE + 44, writable |-> TRUE] }

\* The byte the target holds at address a.
Mem(a) == IF a \in DOMAIN dirty THEN dirty[a] ELSE ImageByte(image, a)

\* ------------------------------------------- process_vm_readv / _writev
\* The iovec pair read_bytes hands to the kernel.
local_iovec(len) == [iov_len |-> len]
remote_iovec(address, len) == [iov_base |-> address, iov_len |-> len]

\* Mutant: the remote vector of the write begins one byte too far.
write_remote_iovec_shifted(address, data) ==
    [iov_base |-> address + 1, iov_len |-> Len(data)]

\* The iovec pair write_bytes hands to the kernel.
write_local_iovec(data) == [iov_len |-> Len(data)]
write_remote_iovec(address, data) == [iov_base |-> address, iov_len |-> Len(data)]

\* How many bytes from remote.iov_base on the kernel can transfer.
Transferable(remote, write) ==
    IF /\ region.lo <= remote.iov_base
       /\ remote.iov_base < region.hi
       /\ (write => region.writable)
    THEN Min(remote.iov_len, region.hi - remote.iov_base)
    ELSE 0

\* The signed counts the syscall may return.  An empty local vector returns 0
\* before the process is looked up; a dead process or a fault on the first
\* byte is an error (-1); a fault further on ends the transfer there, and the
\* kernel reports the bytes moved, or fails the element as a whole.
TransferCounts(local, remote, write) ==
    IF local.iov_len = 0 THEN {0}
    ELSE IF ~alive THEN {0 - 1}
    ELSE LET k == Min(local.iov_len, Transferable(remote, write))
         IN  IF k = local.iov_len THEN {k}
             ELSE IF k = 0 THEN {0 - 1}
             ELSE {k, 0 - 1}

\* buffer = vec![0u8; len], after the kernel moved count bytes into it.
ReadBuffer(local, remote, count) ==
    [i \in 1..local.iov_len |->
        IF i <= count THEN Mem(remote.iov_base + i - 1) ELSE 0]

\* The target's cells after the kernel moved count bytes of data out of it.
WrittenCells(remote, data, count) ==
    [a \in DOMAIN dirty \cup {remote.iov_base + i - 1 : i \in 1..count} |->
        IF a >= remote.iov_base /\ a < remote.iov_base + count
        THEN data[a - remote.iov_base + 1]
        ELSE dirty[a]]

\* Mutant: a short transfer is returned as the zero-padded buffer.
read_bytes_padded(address, len, bytes_read, buf) ==
    IF bytes_read = 0 - 1 THEN ReadMemoryFailed(address) ELSE Ok(buf)

\* Mutant: the error return of the syscall is not checked.
read_bytes_unchecked(address, len, bytes_read, buf) ==
    IF bytes_read >= 0 /\ bytes_read # len
    THEN ReadMemoryPartial(address, bytes_read)
    ELSE Ok(buf)

\* ------------------------------------------------------------- read_bytes
\* The check of the result of the read operation.
read_bytes(address, len, bytes_read, buf) ==
    IF bytes_read = 0 - 1 THEN ReadMemoryFailed(address)
    ELSE IF bytes_read # len THEN ReadMemoryPartial(address, bytes_read)
    ELSE Ok(buf)

\* Mutant: a short write reports the requested length.
write_bytes_requested(address, data, bytes_written) ==
    IF bytes_written = 0 - 1 THEN WriteMemoryFailed(address)
    ELSE IF bytes_written # Len(data) THEN WriteMemoryPartial(address, Len(data))
    ELSE Ok(<<>>)

\* ------------------------------------------------------------ write_bytes
write_bytes(address, data, bytes_written) ==
    IF bytes_written = 0 - 1 THEN WriteMemoryFailed(address)
    ELSE IF bytes_written # Len(data) THEN WriteMemoryPartial(address, bytes_written)
    ELSE Ok(<<>>)

NoWrite == [address |-> NoAddr, data |-> <<>>]
NoRange == [start |-> 0, end |-> 0]

\* No call has returned to the caller.
NoCall == [op |-> "", address |-> 0, len |-> 0, data |-> <<>>,
           range |-> NoRange, count |-> 0, after |-> NoWrite,
           exit |-> "", buffer |-> <<>>, reqs |-> <<>>, result |-> NoResult]

\* The arguments the calls are tried with.
WriteAddrs == {CHUNK_SIZE - 1, CHUNK_SIZE + 42}
WriteDatas == {<<>>, <<171, 0, 66>>}
Reads ==
    [address : WriteAddrs, len : {0, 3}]
    \cup { [address |-> 2 * CHUNK_SIZE + 40, len |-> 8],
           [address |-> USIZE_MAX - 1, len |-> 3] }
Ranges ==
    { [start |-> 0, end |-> 0],
      [start |-> 2, end |-> 1],
      [start |-> TASK_SIZE + 1, end |-> TASK_SIZE + 1],
      [start |-> USIZE_MAX, end |-> TASK_SIZE],
      [start |-> 0, end |-> 2],
      [start |-> 0, end |-> 3],
      [start |-> 0, end |-> CHUNK_SIZE],
      [start |-> 0, end |-> CHUNK_SIZE + 1],
      [start |-> 1, end |-> CHUNK_SIZE + 1],
      [start |-> 0, end |-> 2 * CHUNK_SIZE],
      [start |-> 0, end |-> 2 * CHUNK_SIZE + 88],
      [start |-> TASK_SIZE - 10, end |-> TASK_SIZE],
      [start |-> USIZE_MAX - CHUNK_SIZE, end |-> USIZE_MAX],
      [start |-> USIZE_MAX - 100, end |-> USIZE_MAX] }

ReadBytes(address, len) ==
    /\ pc = "idle"
    /\ LET local == local_iovec(len)
           remote == remote_iovec(address, len)
       IN  \E bytes_read \in TransferCounts(local, remote, FALSE) :
             ret' = [op |-> "read_bytes", address |-> address, len |-> len,
                     data |-> <<>>, range |-> NoRange,
                     count |-> bytes_read, after |-> lastWrite,
                     exit |-> "", buffer |-> <<>>,
                     reqs |-> <<[addr |-> address, len |-> len,
                                 count |-> bytes_read]>>,
                     result |-> read_bytes(address, len, bytes_read,
                                    ReadBuffer(local, remote, bytes_read))]
    /\ lastWrite' = NoWrite
    /\ stable' = TRUE
    /\ UNCHANGED <<memVars, strVars>>
    /\ UNCHANGED locVars

\* write_bytes takes &self and makes one syscall, so another holder of the
\* accessor may run it between two chunks of a read_string in progress.
WriteBytes(address, data) ==
    /\ LET local == write_local_iovec(data)
           remote == write_remote_iovec(address, data)
       IN  \E bytes_written \in TransferCounts(local, remote, TRUE) :
             LET result == write_bytes(address, data, bytes_written)
             IN  /\ dirty' = IF bytes_written > 0
                             THEN WrittenCells(remote, data, bytes_written)
                             ELSE dirty
                 /\ ret' = [op |-> "write_bytes", address |-> address,
                            len |-> Len(data), data |-> data, range |-> NoRange,
                            count |-> bytes_written, after |-> NoWrite,
                            exit |-> "", buffer |-> <<>>,
                            reqs |-> <<[addr |-> address, len |-> Len(data),
                                        count |-> bytes_written]>>,
                            result |-> result]
                 /\ lastWrite' = IF result.tag = "Ok"
                                 THEN [address |-> address, data |-> data]
                                 ELSE NoWrite
                 /\ stable' = IF pc = "idle" THEN TRUE
                              ELSE stable /\ ~(bytes_written > 0)
    /\ UNCHANGED <<image, region, alive, process_id, strVars>>
    /\ UNCHANGED locVars

\* ------------------------------------------------------------ read_string
\* `x as usize`
AsUsize(x) == x % USIZE_MOD

\* Mutant: the index is one too large, so the terminator is kept.
PositionPastZero(chunk) ==
    IF \E i \in 1..Len(chunk) : chunk[i] = 0
    THEN CHOOSE i \in 1..Len(chunk) :
            chunk[i] = 0 /\ \A j \in 1..(i - 1) : chunk[j] # 0
    ELSE 0 - 1

\* Mutant: the last byte of the chunk is not looked at.
PositionButLast(chunk) ==
    IF \E i \in 1..(Len(chunk) - 1) : chunk[i] = 0
    THEN (CHOOSE i \in 1..(Len(chunk) - 1) :
            chunk[i] = 0 /\ \A j \in 1..(i - 1) : chunk[j] # 0) - 1
    ELSE 0 - 1

\* chunk.iter().position(|&b| b == 0): the 0-based index of the first zero
\* byte, or -1 for None.
Position(chunk) ==
    IF \E i \in 1..Len(chunk) : chunk[i] = 0
    THEN (CHOOSE i \in 1..Len(chunk) :
            chunk[i] = 0 /\ \A j \in 1..(i - 1) : chunk[j] # 0) - 1
    ELSE 0 - 1

\* The length to read at cursor s of a range ending at e, given the value sum
\* that `start + length_to_read` evaluated to.
length_to_read(s, e, sum) ==
    IF sum > e THEN e - s ELSE CHUNK_SIZE

\* std's UTF-8 validation: the width of the well-formed sequence that begins
\* at s[i], or 0 when none does.
Cont(s, i, lo, hi) == i <= Len(s) /\ s[i] >= lo /\ s[i] <= hi
Utf8Width(s, i) ==
    LET b == s[i] IN
    IF b < 128 THEN 1
    ELSE IF b >= 194 /\ b <= 223 THEN
        IF Cont(s, i + 1, 128, 191) THEN 2 ELSE 0
    ELSE IF b >= 224 /\ b <= 239 THEN
        IF /\ \/ b = 224 /\ Cont(s, i + 1, 160, 191)
              \/ b >= 225 /\ b <= 236 /\ Cont(s, i + 1, 128, 191)
              \/ b = 237 /\ Cont(s, i + 1, 128, 159)
              \/ b >= 238 /\ Cont(s, i + 1, 128, 191)
           /\ Cont(s, i + 2, 128, 191)
        THEN 3 ELSE 0
    ELSE IF b >= 240 /\ b <= 244 THEN
        IF /\ \/ b = 240 /\ Cont(s, i + 1, 144, 191)
              \/ b >= 241 /\ b <= 243 /\ Cont(s, i + 1, 128, 191)
              \/ b = 244 /\ Cont(s, i + 1, 128, 143)
           /\ Cont(s, i + 2, 128, 191)
           /\ Cont(s, i + 3, 128, 191)
        THEN 4 ELSE 0
    ELSE 0

IsCont(b) == b >= 128 /\ b <= 191

\* String::from_utf8(buffer).is_ok(): every byte that is not a continuation
\* byte begins a well-formed sequence, and every continuation byte lies inside
\* the sequence begun by the nearest such byte before it.
from_utf8(buf) ==
    \A i \in 1..Len(buf) :
        IF ~IsCont(buf[i]) THEN Utf8Width(buf, i) > 0
        ELSE \E d \in 1..3 :
                /\ i - d >= 1
                /\ ~IsCont(buf[i - d])
                /\ \A j \in (i - d + 1)..(i - 1) : IsCont(buf[j])
                /\ Utf8Width(buf, i - d) > d

\* Mutant: the buffer is converted without validation.
read_string_result_lossy(buf, reached, r) ==
    IF reached THEN ReadMemoryPartial(AsUsize(r.start), Len(buf)) ELSE Ok(buf)

\* The conversion of the buffer to a String after the loop.
read_string_result(buf, reached, r) ==
    IF ~from_utf8(buf) THEN ReadMemoryFailed(AsUsize(r.start))
    ELSE IF reached THEN ReadMemoryPartial(AsUsize(r.start), Len(buf))
    ELSE Ok(buf)

\* Mutant: the loop is entered when start has reached the end of the range.
while_condition_inclusive(s, e) == s <= e

\* while start < range.end as usize
while_condition(s, e) == s < e

\* Mutant: a failed chunk is reported against the range, with the bytes
\* accumulated so far counted in.
propagate_as_partial(e, r, buf) ==
    ReadMemoryPartial(AsUsize(r.start), Len(buf) + e.n)

\* Err(e) => { return Err(e); }
propagate(e, r, buf) == e

\* read_string returns: its locals are gone, the caller holds the result.
Return(how, buf, rq, result) ==
    /\ pc' = "idle"
    /\ range' = NoRange
    /\ start' = 0
    /\ buffer' = <<>>
    /\ reached_end' = FALSE
    /\ reqs' = <<>>
    /\ ret' = [op |-> "read_string", address |-> 0, len |-> 0, data |-> <<>>,
               range |-> range, count |-> 0, after |-> NoWrite,
               exit |-> how, buffer |-> buf, reqs |-> rq, result |-> result]

\* Mutant: the accessor keeps its scan buffer, and the next read_string goes
\* on from the bytes the previous one left.
ReadStringCallResuming(r) ==
    /\ pc = "idle"
    /\ pc' = "loop"
    /\ range' = r
    /\ start' = AsUsize(r.start)
    /\ buffer' = ret.buffer
    /\ reached_end' = FALSE
    /\ reqs' = <<>>
    /\ ret' = NoCall
    /\ lastWrite' = NoWrite
    /\ stable' = TRUE
    /\ UNCHANGED memVars
    /\ UNCHANGED locVars

\* read_string is entered: the locals are initialised.
ReadStringCall(r) ==
    /\ pc = "idle"
    /\ pc' = "loop"
    /\ range' = r
    /\ start' = AsUsize(r.start)
    /\ buffer' = <<>>
    /\ reached_end' = FALSE
    /\ reqs' = <<>>
    /\ ret' = NoCall
    /\ lastWrite' = NoWrite
    /\ stable' = TRUE
    /\ UNCHANGED memVars
    /\ UNCHANGED locVars

\* The loop condition fails: the buffer is converted and returned.
ReadStringReturn ==
    /\ pc = "loop"
    /\ ~(while_condition(start, AsUsize(range.end)))
    /\ Return("exhausted", buffer, reqs,
              read_string_result(buffer, reached_end, range))
    /\ UNCHANGED <<memVars, lastWrite, stable>>
    /\ UNCHANGED locVars

\* `start + length_to_read` overflows in a build with overflow checks.
ReadStringOverflow ==
    /\ pc = "loop"
    /\ while_condition(start, AsUsize(range.end))
    /\ start + CHUNK_SIZE > USIZE_MAX
    /\ Return("panic", buffer, reqs, Panic)
    /\ UNCHANGED <<memVars, lastWrite, stable>>
    /\ UNCHANGED locVars

\* One iteration of the loop: one read_bytes call and the match on its result.
\* Without overflow checks the sum wraps.
ReadStringChunk ==
    /\ pc = "loop"
    /\ while_condition(start, AsUsize(range.end))
    /\ LET len == length_to_read(start, AsUsize(range.end),
                                  (start + CHUNK_SIZE) % USIZE_MOD)
           local == local_iovec(len)
           remote == remote_iovec(start, len)
       IN  \E bytes_read \in TransferCounts(local, remote, FALSE) :
             LET chunk_result == read_bytes(start, len, bytes_read,
                                     ReadBuffer(local, remote, bytes_read))
                 chunk == chunk_result.val
                 end == Position(chunk)
                 rq == Append(reqs, [addr |-> start, len |-> len,
                                     count |-> bytes_read])
             IN  IF chunk_result.tag # "Ok" THEN
                     Return("error", buffer, rq,
                            propagate(chunk_result, range, buffer))
                 ELSE IF end # 0 - 1 THEN
                     LET found == buffer \o SubSeq(chunk, 1, end)
                     IN  Return("terminator", found, rq,
                                read_string_result(found, reached_end, range))
                 ELSE IF Len(chunk) < len THEN
                     Return("short", buffer \o chunk, rq,
                            read_string_result(buffer \o chunk, TRUE, range))
                 ELSE
                     /\ buffer' = buffer \o chunk
                     /\ start' = (start + len) % USIZE_MOD
                     /\ reqs' = rq
                     /\ UNCHANGED <<pc, range, ret, reached_end>>
    /\ UNCHANGED <<memVars, lastWrite, stable>>
    /\ UNCHANGED locVars

\* ----------------------------------------------------------- find_process
\* Text is a sequence of one-character strings.
Digits == <<"0", "1", "2", "3", "4", "5", "6", "7", "8", "9">>
IsDigit(c) == \E d \in 1..10 : Digits[d] = c
DigitVal(c) == (CHOOSE d \in 1..10 : Digits[d] = c) - 1
Letters == {"a", "b", "z", "P", "I", "D", "C", "M"}
\* grep's word constituents: letters, digits and the underscore.
IsWord(c) == IsDigit(c) \/ c \in Letters \/ c = "_"
IsSpace(c) == c = " "

\* format!("\"{}\"", name)
Quote(name) == <<"\"">> \o name \o <<"\"">>

\* The rows `ps -e` prints: a header, then one row per process with the
\* identifier right-aligned in its column.
PidWidth == 3
RECURSIVE Pad(_, _)
Pad(text, width) == IF Len(text) >= width THEN text ELSE Pad(<<" ">> \o text, width)
PsRow(pid, cmd) == Pad(pid, PidWidth) \o <<" ">> \o cmd
PsOutput(procs) ==
    <<PsRow(<<"P", "I", "D">>, <<"C", "M", "D">>)>>
    \o [i \in 1..Len(procs) |-> PsRow(procs[i].pid, procs[i].cmd)]

\* grep -w: the name occurs in the line with no word constituent next to it
\* on either side.
GrepW(line, name) ==
    \E i \in 1..(Len(line) - Len(name) + 1) :
        /\ SubSeq(line, i, i + Len(name) - 1) = name
        /\ (i = 1 \/ ~IsWord(line[i - 1]))
        /\ (i + Len(name) > Len(line) \/ ~IsWord(line[i + Len(name)]))

\* sh -c "sudo ps -e | grep -w \"name\"": the lines the reader yields.
Pipeline(procs, name) ==
    SelectSeq(PsOutput(procs), LAMBDA line : GrepW(line, name))

\* line.split_whitespace().collect()
RECURSIVE SplitFrom(_, _, _)
SplitFrom(line, i, word) ==
    IF i > Len(line) THEN (IF word = <<>> THEN <<>> ELSE <<word>>)
    ELSE IF IsSpace(line[i])
         THEN (IF word = <<>> THEN <<>> ELSE <<word>>) \o SplitFrom(line, i + 1, <<>>)
         ELSE SplitFrom(line, i + 1, Append(word, line[i]))
split_whitespace(line) == SplitFrom(line, 1, <<>>)

\* str::parse::<i32>: an optional sign, then one or more digits.  The tokens
\* of the model are a few characters long, far inside i32's range.
RECURSIVE DigitsValue(_, _)
DigitsValue(digits, acc) ==
    IF digits = <<>> THEN acc
    ELSE DigitsValue(Tail(digits), acc * 10 + DigitVal(Head(digits)))
Unsigned(token) ==
    IF token # <<>> /\ Head(token) \in {"+", "-"} THEN Tail(token) ELSE token
ParseOk(token) ==
    /\ Unsigned(token) # <<>>
    /\ \A i \in 1..Len(Unsigned(token)) : IsDigit(Unsigned(token)[i])
ParseValue(token) ==
    IF Head(token) = "-" THEN 0 - DigitsValue(Unsigned(token), 0)
    ELSE DigitsValue(Unsigned(token), 0)

Found(pid) == [tag |-> "Ok", pid |-> pid, text |-> <<>>]
ProcessNotFound(name) == [tag |-> "ProcessNotFound", pid |-> 0, text |-> name]
ParseInt(token) == [tag |-> "ParseInt", pid |-> 0, text |-> token]
NotLocated == [tag |-> "None", pid |-> 0, text |-> <<>>]

\* Mutant: the loop keeps the last line instead of returning at the first.
ForLinesLast(lines, i, name) ==
    IF lines = <<>> THEN ProcessNotFound(name)
    ELSE LET parts == split_whitespace(lines[Len(lines)])
         IN  IF ParseOk(parts[1]) THEN Found(ParseValue(parts[1]))
             ELSE ParseInt(parts[1])

\* The loop over the reader's lines, from line i on.
RECURSIVE ForLines(_, _, _)
ForLines(lines, i, name) ==
    IF i > Len(lines) THEN ProcessNotFound(name)
    ELSE LET parts == split_whitespace(lines[i])
         IN  IF parts # <<>>
             THEN (IF ParseOk(parts[1]) THEN Found(ParseValue(parts[1]))
                   ELSE ParseInt(parts[1]))
             ELSE ForLines(lines, i + 1, name)

\* The shell takes a double-quoted word as one argument, without its quotes.
ShellWord(quoted) == SubSeq(quoted, 2, Len(quoted) - 1)

find_process(procs, name) ==
    LET quoted == Quote(name)
    IN  ForLines(Pipeline(procs, ShellWord(quoted)), 1, quoted)

\* The processes and the names find_process is tried with.
MaxProcs == 2
Pids == {<<"1">>, <<"2">>, <<"1", "2">>}
Cmds == {<<"a">>, <<"b">>, <<"a", " ", "b">>, <<"a", "-", "b">>}
Names == {<<"a">>, <<"b">>, <<"a", " ", "b">>, <<"1">>, <<"P", "I", "D">>, <<"z">>}
Tables ==
    { t \in UNION { [1..n -> [pid : Pids, cmd : Cmds]] : n \in 0..MaxProcs } :
        \A i, j \in 1..Len(t) : i # j => t[i].pid # t[j].pid }

NoLocate == [name |-> <<>>, result |-> NotLocated]

\* MemoryReader::new(process_name)
New(process_name) ==
    /\ located' = [name |-> process_name,
                   result |-> find_process(table, process_name)]
    /\ process_id' = IF located'.result.tag = "Ok"
                     THEN located'.result.pid ELSE process_id
    /\ UNCHANGED <<image, dirty, region, alive, strVars, ret, lastWrite,
                   stable, table>>

\* ------------------------------------------------------------ environment
\* The target process exits.
ProcessExit ==
    /\ alive
    /\ alive' = FALSE
    /\ lastWrite' = NoWrite
    /\ stable' = FALSE
    /\ UNCHANGED <<image, dirty, region, process_id, strVars, ret>>
    /\ UNCHANGED locVars

\* The target process stores a byte into its own memory.
MutateAddrs == {CHUNK_SIZE - 1}
MutateBytes == {0}
TargetMutate(a, b) ==
    /\ alive
    /\ region.lo <= a /\ a < region.hi
    /\ Mem(a) # b
    /\ dirty' = [x \in DOMAIN dirty \cup {a} |-> IF x = a THEN b ELSE dirty[x]]
    /\ lastWrite' = NoWrite
    /\ stable' = FALSE
    /\ UNCHANGED <<image, region, alive, process_id, strVars, ret>>
    /\ UNCHANGED locVars

Init ==
    /\ image \in Images
    /\ dirty = <<>>
    /\ region \in Regions
    /\ alive = TRUE
    /\ process_id = 1
    /\ pc = "idle"
    /\ range = NoRange
    /\ start = 0
    /\ buffer = <<>>
    /\ reached_end = FALSE
    /\ reqs = <<>>
    /\ ret = NoCall
    /\ lastWrite = NoWrite
    /\ stable = TRUE
    /\ table = <<>>
    /\ located = NoLocate

Next ==
    \/ \E r \in Reads : ReadBytes(r.address, r.len)
    \/ \E address \in WriteAddrs, data \in WriteDatas : WriteBytes(address, data)
    \/ \E r \in Ranges : ReadStringCall(r)
    \/ ReadStringChunk
    \/ ReadStringOverflow
    \/ ReadStringReturn
    \/ ProcessExit
    \/ \E a \in MutateAddrs, b \in MutateBytes : TargetMutate(a, b)

Spec == Init /\ [][Next]_vars

\* The accessor is being built: the process is looked up by name.
InitLocate ==
    /\ table \in Tables
    /\ located = NoLocate
    /\ process_id = 0
    /\ image = [kind |-> "ascii", z |-> NoAddr]
    /\ dirty = <<>>
    /\ region = [lo |-> 0, hi |-> TASK_SIZE, writable |-> TRUE]
    /\ alive = TRUE
    /\ pc = "idle"
    /\ range = NoRange
    /\ start = 0
    /\ buffer = <<>>
    /\ reached_end = FALSE
    /\ reqs = <<>>
    /\ ret = NoCall
    /\ lastWrite = NoWrite
    /\ stable = TRUE

NextLocate == \E name \in Names : New(name)

SpecLocate == InitLocate /\ [][NextLocate]_vars
\* ===================================================================
\* Properties
\* ===================================================================
\* The target's bytes at [a, e).
Bytes(a, e) == [i \in 1..(e - a) |-> Mem(a + i - 1)]
ZeroIn(a, e) == {p \in a..(e - 1) : Mem(p) = 0}
FirstZero(a, e) == CHOOSE p \in ZeroIn(a, e) : \A q \in ZeroIn(a, e) : p <= q

\* read_string has returned, the process lived and nothing else touched the
\* target since the call began, and the whole range is mapped.
QuietString ==
    /\ ret.op = "read_string"
    /\ stable /\ alive
    /\ ret.range.start < ret.range.end
    /\ region.lo <= ret.range.start /\ ret.range.end <= region.hi

FullReads(rq) == \A i \in 1..Len(rq) : rq[i].count = rq[i].len

\* C1 (as claimed): when every chunk of a non-empty range is read in full and
\* holds no zero byte, read_string signals ReadMemoryPartial(range.start, n)
\* with n the length of the decoded bytes, never a clean success.
C1_Truncation ==
    (/\ ret.op = "read_string"
     /\ ret.range.start < ret.range.end
     /\ ret.exit = "exhausted"
     /\ FullReads(ret.reqs)
     /\ from_utf8(ret.buffer))
    => ret.result = ReadMemoryPartial(ret.range.start, Len(ret.buffer))

\* C2 (as claimed): over stable, mapped memory whose first zero byte from
\* range.start lies at p < range.end, read_string returns Ok with exactly
\* the bytes of [range.start, p), whatever those bytes are.
C2_Original ==
    (QuietString /\ ZeroIn(ret.range.start, ret.range.end) # {})
    => ret.result = Ok(Bytes(ret.range.start,
                             FirstZero(ret.range.start, ret.range.end)))

\* C2 (amended): the same, provided the bytes of [range.start, p) are valid
\* UTF-8.
C2_Termination ==
    (/\ QuietString
     /\ ZeroIn(ret.range.start, ret.range.end) # {}
     /\ from_utf8(Bytes(ret.range.start,
                        FirstZero(ret.range.start, ret.range.end))))
    => ret.result = Ok(Bytes(ret.range.start,
                             FirstZero(ret.range.start, ret.range.end)))

\* The terminator is the first byte of the second chunk and the 256 bytes
\* before it come back.
C2_Witness ==
    /\ QuietString
    /\ ret.range.start = 0
    /\ ZeroIn(0, ret.range.end) # {}
    /\ FirstZero(0, ret.range.end) = CHUNK_SIZE
    /\ ret.result.tag = "Ok"
    /\ Len(ret.result.val) = CHUNK_SIZE
    /\ Len(ret.reqs) = 2

\* C3: read_bytes classifies the syscall's count: len gives Ok with len bytes,
\* a smaller count k >= 0 gives ReadMemoryPartial(address, k), a negative
\* count gives ReadMemoryFailed(address).
C3_ReadClassify ==
    ret.op = "read_bytes" =>
        /\ ret.count = ret.len =>
              ret.result.tag = "Ok" /\ Len(ret.result.val) = ret.len
        /\ (ret.count >= 0 /\ ret.count < ret.len) =>
              ret.result = ReadMemoryPartial(ret.address, ret.count)
        /\ ret.count < 0 => ret.result = ReadMemoryFailed(ret.address)

C3_Witness ==
    /\ ret.op = "read_bytes"
    /\ ret.count > 0 /\ ret.count < ret.len
    /\ ret.result = ReadMemoryPartial(ret.address, ret.count)

\* C4: write_bytes returns Ok only when the count equals data.len(); a smaller
\* count k >= 0 gives WriteMemoryPartial(address, k), an error count gives
\* WriteMemoryFailed(address).
C4_WriteClassify ==
    ret.op = "write_bytes" =>
        /\ ret.result.tag = "Ok" <=> ret.count = Len(ret.data)
        /\ (ret.count >= 0 /\ ret.count < Len(ret.data)) =>
              ret.result = WriteMemoryPartial(ret.address, ret.count)
        /\ ret.count < 0 => ret.result = WriteMemoryFailed(ret.address)

C4_Witness ==
    /\ ret.op = "write_bytes"
    /\ ret.count > 0 /\ ret.count < Len(ret.data)
    /\ ret.result = WriteMemoryPartial(ret.address, ret.count)

\* C5: a read_bytes(a, n) that follows an Ok write_bytes(a, b), n = len(b),
\* with nothing else touching the target in between, returns Ok with b.
C5_RoundTrip ==
    (/\ ret.op = "read_bytes"
     /\ ret.after # NoWrite
     /\ ret.after.address = ret.address
     /\ Len(ret.after.data) = ret.len)
    => ret.result = Ok(ret.after.data)

C5_Witness ==
    /\ ret.op = "read_bytes"
    /\ ret.after # NoWrite
    /\ ret.after.address = ret.address
    /\ Len(ret.after.data) = ret.len
    /\ ret.len = 3
    /\ ret.result = Ok(ret.after.data)

\* The last read_bytes call of the returned read_string.
LastReq == ret.reqs[Len(ret.reqs)]

\* C6 (as claimed): when a chunk transfers fewer bytes than requested and no
\* terminator was found, read_string keeps the bytes read and signals
\* ReadMemoryPartial(range.start, n), n the length of all it accumulated.
C6_ShortChunk ==
    (/\ ret.op = "read_string"
     /\ stable
     /\ ret.reqs # <<>>
     /\ LastReq.count >= 0 /\ LastReq.count < LastReq.len
     /\ from_utf8(ret.buffer \o Bytes(LastReq.addr, LastReq.addr + LastReq.count)))
    => ret.result = ReadMemoryPartial(ret.range.start,
                                      Len(ret.buffer) + LastReq.count)

\* The call asked the kernel to move at least one byte.
MovesBytes ==
    \/ ret.op = "read_bytes" /\ ret.len > 0
    \/ ret.op = "write_bytes" /\ Len(ret.data) > 0
    \/ ret.op = "read_string" /\ ret.range.start < ret.range.end

\* The call began after the target had exited.
AfterExit == ret.op # "" /\ ~alive /\ stable

\* C7 (as claimed): once the target has exited, every call, zero-length reads
\* and empty ranges included, fails with an error.
C7_Original == AfterExit => IsErr(ret.result)

\* C7 (amended): once the target has exited, every read_bytes with len > 0,
\* write_bytes with non-empty data and read_string with range.start <
\* range.end returns no success value: it fails with ReadMemoryFailed or
\* WriteMemoryFailed at its first address, or, where range.start + CHUNK_SIZE
\* overflows in a build with overflow checks, panics.
C7_AfterExit ==
    (AfterExit /\ MovesBytes) =>
        \/ /\ ret.op = "read_bytes"
           /\ ret.result = ReadMemoryFailed(ret.address)
        \/ /\ ret.op = "write_bytes"
           /\ ret.result = WriteMemoryFailed(ret.address)
        \/ /\ ret.op = "read_string"
           /\ ret.result = ReadMemoryFailed(ret.range.start)
        \/ /\ ret.op = "read_string"
           /\ ret.result = Panic
           /\ ret.range.start + CHUNK_SIZE > USIZE_MAX

C7_Witness ==
    /\ AfterExit
    /\ ret.op = "read_string"
    /\ ret.range.start < ret.range.end
    /\ ret.result = ReadMemoryFailed(ret.range.start)

\* Every request of rq, made for range r, starts inside r and asks for
\* min(CHUNK_SIZE, r.end - cursor) bytes.
RequestsWithin(rq, r) ==
    \A i \in 1..Len(rq) :
        /\ r.start <= rq[i].addr /\ rq[i].addr < r.end
        /\ rq[i].len = Min(CHUNK_SIZE, r.end - rq[i].addr)

\* C8 (as claimed): every chunk read_string requests starts at a cursor in
\* [range.start, range.end) and asks for min(CHUNK_SIZE, range.end - cursor)
\* bytes, also where cursor + CHUNK_SIZE wraps.
C8_ChunkRequests ==
    /\ RequestsWithin(reqs, range)
    /\ ret.op = "read_string" => RequestsWithin(ret.reqs, ret.range)

\* C9: when the loop ends without a chunk read error and the accumulated bytes
\* are not valid UTF-8, read_string signals ReadMemoryFailed(range.start),
\* terminator or not.
C9_DecodeFailure ==
    (/\ ret.op = "read_string"
     /\ ret.exit \in {"terminator", "short", "exhausted"}
     /\ ~from_utf8(ret.buffer))
    => ret.result = ReadMemoryFailed(ret.range.start)

C9_Witness ==
    /\ ret.op = "read_string"
    /\ ret.exit = "terminator"
    /\ ret.buffer # <<>>
    /\ ~from_utf8(ret.buffer)
    /\ ret.result = ReadMemoryFailed(ret.range.start)

\* The lines of the enumeration that match the name, by their position.
Matching(name) ==
    {i \in 1..Len(PsOutput(table)) : GrepW(PsOutput(table)[i], name)}
FirstMatching(name) ==
    CHOOSE i \in Matching(name) : \A j \in Matching(name) : i <= j
\* The leading token of line i of the enumeration: the header's, or a row's
\* identifier column.
LeadingToken(i) == IF i = 1 THEN <<"P", "I", "D">> ELSE table[i - 1].pid

\* C10: find_process returns the identifier parsed from the leading token of
\* the first matching line, signals ProcessNotFound when no line matches, and
\* a parse error when that token is not an integer.
C10_FirstMatch ==
    located # NoLocate =>
        IF Matching(located.name) = {}
        THEN located.result.tag = "ProcessNotFound"
        ELSE LET token == LeadingToken(FirstMatching(located.name))
             IN  IF ParseOk(token)
                 THEN located.result = Found(ParseValue(token))
                 ELSE located.result.tag = "ParseInt"

\* Two rows match and the first one's identifier is returned.
C10_Witness ==
    /\ located # NoLocate
    /\ Cardinality(Matching(located.name)) = 2
    /\ located.result.tag = "Ok"
    /\ located.result = Found(ParseValue(LeadingToken(FirstMatching(located.name))))
    /\ \E j \in Matching(located.name) :
          ParseValue(LeadingToken(j)) # located.result.pid
\* ceil((range.end - range.start) / CHUNK_SIZE), 0 for an empty range.
CallBound(r) ==
    IF r.start < r.end THEN (r.end - r.start + CHUNK_SIZE - 1) \div CHUNK_SIZE
    ELSE 0

\* The requests begin at range.start, each asks for at least one byte and
\* begins where the one before it ended.
Contiguous(rq, r) ==
    /\ rq # <<>> => rq[1].addr = r.start
    /\ \A i \in 1..Len(rq) : rq[i].len >= 1
    /\ \A i \in 1..(Len(rq) - 1) : rq[i + 1].addr = rq[i].addr + rq[i].len

\* C11: read_bytes and write_bytes issue exactly one syscall each; read_string
\* makes at most ceil((range.end - range.start) / 256) read_bytes calls, at
\* contiguous increasing addresses, none after the chunk that holds the
\* first zero byte, so that at most CHUNK_SIZE - 1 bytes past the terminator
\* are read.
C11_BoundedScan ==
    /\ ret.op \in {"read_bytes", "write_bytes"} => Len(ret.reqs) = 1
    /\ Len(reqs) <= CallBound(range) /\ Contiguous(reqs, range)
    /\ (pc = "loop" /\ Len(reqs) = CallBound(range)) =>
           ~(start < AsUsize(range.end))
    /\ ret.op = "read_string" =>
          /\ Len(ret.reqs) <= CallBound(ret.range)
          /\ Contiguous(ret.reqs, ret.range)
          /\ stable =>
                /\ \A i \in 1..(Len(ret.reqs) - 1) :
                      ZeroIn(ret.reqs[i].addr,
                             ret.reqs[i].addr + ret.reqs[i].len) = {}
                /\ ret.exit = "terminator" =>
                      LastReq.addr + LastReq.len - 1
                        - FirstZero(ret.range.start, LastReq.addr + LastReq.len)
                      <= CHUNK_SIZE - 1

\* Two chunks were read and the terminator was found in the second, with
\* bytes of that chunk read past it.
C11_Witness ==
    /\ ret.op = "read_string"
    /\ stable
    /\ ret.exit = "terminator"
    /\ Len(ret.reqs) = 2
    /\ CallBound(ret.range) = 2
    /\ FirstZero(ret.range.start, ret.range.end) < LastReq.addr + LastReq.len - 1
C14_EmptyRange ==
    /\ (pc = "loop" /\ range.start >= range.end) => reqs = <<>>
    /\ (ret.op = "read_string" /\ ret.range.start >= ret.range.end) =>
          /\ ret.reqs = <<>>
          /\ ret.result = Ok(<<>>)

\* An inverted range over addresses that are never mapped, read after the
\* target process has exited, came back as Ok of the empty string.
C14_Witness ==
    /\ ret.op = "read_string"
    /\ ret.range.start > ret.range.end
    /\ ret.range.start >= region.hi /\ ret.range.end >= region.hi
    /\ ~alive
    /\ ret.result = Ok(<<>>)
\* C12: no call changes the stored process identifier, whether it succeeds or
\* fails, whether the target is alive or gone, and whether it runs alone or
\* between the chunks of another call; nothing of a call outlives it: between
\* calls the accessor holds the identifier and nothing else, and every
\* read_string begins from an empty buffer at range.start with reached_end
\* unset, whatever was called before.
C12_Immutable ==
    [][/\ process_id' = process_id
       /\ pc' = "idle" =>
             <<range', start', buffer', reached_end', reqs'>>
                = <<NoRange, 0, <<>>, FALSE, <<>>>>
       /\ (pc = "idle" /\ pc' = "loop") =>
             /\ start' = AsUsize(range'.start)
             /\ <<buffer', reached_end', reqs'>> = <<<<>>, FALSE, <<>>>>]_vars

\* While a read_string was between two chunks, another caller's write_bytes
\* moved bytes and the target then exited; the identifier is still the one
\* the accessor was built with.
C12_Witness ==
    /\ pc = "loop"
    /\ reqs # <<>>
    /\ ret.op = "write_bytes"
    /\ ret.count > 0
    /\ ~stable
    /\ ~alive
    /\ process_id = 1
====
